---------------------------- MODULE Spec2Model ----------------------------
(***************************************************************************)
(* Model of simulate() in src/d.py (HeatSync smart-floor simulator) and of *)
(* the Flask handlers that call it.                                        *)
(*                                                                         *)
(* Floats are modelled as integers, rounded to nearest (ties to even)     *)
(* after every arithmetic operation, as IEEE-754 does at its own           *)
(* resolution:                                                             *)
(*   temperatures  in 1/TempScale  degrees C                               *)
(*   prices, cost  in 1/PriceScale EUR                                     *)
(*   uniform draws in 1/UnitScale                                          *)
(* Temperatures keep the binary exponent of a float: the spacing of the    *)
(* representable values is 1/TempScale below 2 degrees and doubles at      *)
(* every power of two (Fl), as the spacing of doubles does.                *)
(* Storage, grid heating and PCM use stay Python ints in the code (they    *)
(* are built from the int literals 5 and 2), so they are integers here.    *)
(*                                                                         *)
(* numpy's global generator is MT19937.  Its state is represented by the   *)
(* number of doubles drawn since seed(0): seed(0) puts it at 0 and each    *)
(* draw advances it by one.  Stream holds the doubles MT19937 produces     *)
(* after seed(0) (init_genrand(0), genrand_res53), truncated to            *)
(* 1/UnitScale.                                                            *)
(***************************************************************************)
EXTENDS Integers, Sequences, FiniteSets, TLC

VARIABLES
    rng_pos,        \* state of the process-wide numpy generator
    pc,             \* per invocation: position in simulate()
    desired_temp,   \* per invocation: argument
    outdoor_temp,   \* per invocation: argument
    prices,         \* per invocation: local array `prices`
    temps,          \* per invocation: local list `temps`
    storage,        \* per invocation: local list `storage`
    grid,           \* per invocation: local list `grid`
    pcm_use,        \* per invocation: local list `pcm_use`
    cost,           \* per invocation: local `cost`
    hour,           \* per invocation: loop variable `hour`
    result          \* per invocation: the returned (df, total_cost, co2, trees)

vars == <<rng_pos, pc, desired_temp, outdoor_temp, prices, temps, storage,
          grid, pcm_use, cost, hour, result>>

---------------------------------------------------------------------------
(* Bounds of the model *)

\* number of simulate() calls made one after the other
NumCalls == 2

\* number of request threads serving handlers at the same time
NumThreads == 2

---------------------------------------------------------------------------
(* Fixed-point resolutions *)

TempScale  == 100 * 1000
PriceScale == 100 * 1000
UnitScale  == 100 * 1000

\* round x/d to the nearest integer, ties to even (d > 0); a function of
\* the pair <<x, d>>, so that the operands are evaluated once
Nearest[xd \in Int \X Int] ==
    LET q == xd[1] \div xd[2]
        r == xd[1] % xd[2]
    IN  IF 2 * r < xd[2] THEN q
        ELSE IF 2 * r > xd[2] THEN q + 1
        ELSE IF q % 2 = 0 THEN q ELSE q + 1

RoundHalfEven(x, d) == Nearest[<<x, d>>]

\* round x/d to the nearest integer, ties upward (d > 0)
RoundHalfUp(x, d) == (2 * x + d) \div (2 * d)

Abs(x) == IF x < 0 THEN -x ELSE x

\* spacing of the representable temperatures around x: u below bound,
\* doubled at every doubling of bound
RECURSIVE Spacing(_, _, _)
Spacing(a, bound, u) ==
    IF a < bound THEN u ELSE Spacing(a, 2 * bound, 2 * u)

Ulp(x) == Spacing(Abs(x), 2 * TempScale, 1)

\* the representable temperature nearest to x, ties to even
Representable[x \in Int] == RoundHalfEven(x, Ulp(x)) * Ulp(x)

Fl(x) == Representable[x]

RECURSIVE SumSeq(_)
SumSeq(s) == IF s = <<>> THEN 0 ELSE Head(s) + SumSeq(Tail(s))

Min(a, b) == IF a < b THEN a ELSE b

---------------------------------------------------------------------------
(* Program constants *)

room_vol == 50
power == 2
pcm_cap == 5
\* loss_coeff = 0.3, in tenths
loss_coeff_tenths == 3
dt == 1
\* np.random.uniform(0.15, 0.25, 24)
price_low  == 15 * (PriceScale \div 100)
price_high == 25 * (PriceScale \div 100)
num_prices == 24
\* prices[h] += 0.15
surcharge == 15 * (PriceScale \div 100)
\* variant: the peak hours counted from 1
PeakHoursFromOne == {8, 9, 18, 19, 20}

\* square brackets of line 23
PeakHours == {7, 8, 17, 18, 19}
\* variant: the loop stops one hour early
LoopRangeShort == 0 .. 22

\* range(24) of the loop
LoopRange == 0 .. 23
\* list(range(24)) of the Hour column
HourColumn == [i \in 1 .. 24 |-> i - 1]
\* 0.233 kg CO2 per kWh, in thousandths
co2_factor_milli == 233
trees_divisor == 21

\* defaults of simulate(desired_temp=22, outdoor_temp=5)
default_desired_temp == 22 * TempScale
default_outdoor_temp == 5 * TempScale

\* doubles of MT19937 after seed(0), in 1/UnitScale
Stream ==
    << 
    54881, 71518, 60276, 54488, 42365, 64589, 43758, 89177,
    96366, 38344, 79172, 52889, 56804, 92559, 7103, 8712,
    2021, 83261, 77815, 87001, 97861, 79915, 46147, 78052,
    11827, 63992, 14335, 94466, 52184, 41466, 26455, 77423,
    45615, 56843, 1878, 61763, 61209, 61693, 94374, 68182,
    35950, 43703, 69763, 6022, 66676, 67063, 21038, 12892,
    31542, 36371, 57019, 43860, 98837, 10204, 20887, 16130,
    65310, 25329, 46631, 24442, 15896, 11037, 65632, 13818,
    19658, 36872, 82099, 9710, 83794, 9609, 97645, 46865,
    97676, 60484, 73926, 3918, 28280, 12019, 29614, 11872,
    31798, 41426, 6414, 69247, 56660, 26538, 52324, 9394,
    57594, 92929, 31856, 66741, 13179, 71632, 28940, 18319,
    58651, 2010, 82894, 469, 67781, 27000, 73519, 96218,
    24875, 57615, 59204, 57225, 22308, 95274, 44712, 84640,
    69947, 29743, 81379, 39650, 88110, 58127, 88173, 69253
    >>

---------------------------------------------------------------------------
(* Price generation: lines 21-23 *)

\* variant: the generator is not reseeded
SeedStateKept(pos) == pos

\* np.random.seed(0): the generator state after seeding
SeedState(pos) == 0

\* np.random.uniform(0.15, 0.25, 24) from generator state pos:
\* low + (high - low) * u for the next 24 doubles u
Uniform(pos) ==
    [i \in 1 .. num_prices |->
        price_low + RoundHalfEven((price_high - price_low) * Stream[pos + i],
                                  UnitScale)]

\* generator state after the 24 draws
AfterUniform(pos) == pos + num_prices

\* for h in [7, 8, 17, 18, 19]: prices[h] += 0.15   (index h is hour h)
AddSurcharge(p) ==
    [i \in 1 .. Len(p) |->
        IF (i - 1) \in PeakHours THEN p[i] + surcharge ELSE p[i]]

---------------------------------------------------------------------------
(* The loop body: lines 30-49 *)

\* variant: the product is divided by 100
LossTenfold(t, outdoor) ==
    LET diff == Fl(t - outdoor)
        prod == Fl((loss_coeff_tenths * room_vol * diff) \div 10)
    IN  Fl(RoundHalfEven(prod, 100))

\* loss = loss_coeff * room_vol * (t - outdoor_temp) / 1000
Loss(t, outdoor) ==
    LET diff == Fl(t - outdoor)
        prod == Fl((loss_coeff_tenths * room_vol * diff) \div 10)
    IN  Fl(RoundHalfEven(prod, 1000))

\* variant: discharge at full power whatever is left (no min)
DecideNoMin(t, s, p, c, desired) ==
    IF t < desired
    THEN IF s > 0
         THEN [use |-> power, s |-> s - power, heat |-> power,
               grid_heat |-> 0, cost |-> c]
         ELSE [use |-> 0, s |-> s, heat |-> power,
               grid_heat |-> power, cost |-> c + power * p * dt]
    ELSE [use |-> 0, s |-> s, heat |-> 0, grid_heat |-> 0, cost |-> c]

\* variant: full-power discharge reported, the level clamped at empty
DecideClamped(t, s, p, c, desired) ==
    IF t < desired
    THEN IF s > 0
         THEN [use |-> power, s |-> IF s > power THEN s - power ELSE 0,
               heat |-> power, grid_heat |-> 0, cost |-> c]
         ELSE [use |-> 0, s |-> s, heat |-> power,
               grid_heat |-> power, cost |-> c + power * p * dt]
    ELSE [use |-> 0, s |-> s, heat |-> 0, grid_heat |-> 0, cost |-> c]

\* variant: the grid tops up a partial discharge
DecideTopUp(t, s, p, c, desired) ==
    IF t < desired
    THEN IF s > 0
         THEN LET use == Min(power, s)
              IN  [use |-> use, s |-> s - use, heat |-> power,
                   grid_heat |-> power - use,
                   cost |-> c + (power - use) * p * dt]
         ELSE [use |-> 0, s |-> s, heat |-> power,
               grid_heat |-> power, cost |-> c + power * p * dt]
    ELSE [use |-> 0, s |-> s, heat |-> 0, grid_heat |-> 0, cost |-> c]

\* variant: the storage test is s >= 0, so an empty store is "discharged"
DecideEmptyStore(t, s, p, c, desired) ==
    IF t < desired
    THEN IF s >= 0
         THEN LET use == Min(power, s)
              IN  [use |-> use, s |-> s - use, heat |-> use,
                   grid_heat |-> 0, cost |-> c]
         ELSE [use |-> 0, s |-> s, heat |-> power,
               grid_heat |-> power, cost |-> c + power * p * dt]
    ELSE [use |-> 0, s |-> s, heat |-> 0, grid_heat |-> 0, cost |-> c]

\* variant: the store is discharged only while a full-rate hour is left
DecideFullRateOnly(t, s, p, c, desired) ==
    IF t < desired
    THEN IF s >= power
         THEN LET use == Min(power, s)
              IN  [use |-> use, s |-> s - use, heat |-> use,
                   grid_heat |-> 0, cost |-> c]
         ELSE [use |-> 0, s |-> s, heat |-> power,
               grid_heat |-> power, cost |-> c + power * p * dt]
    ELSE [use |-> 0, s |-> s, heat |-> 0, grid_heat |-> 0, cost |-> c]

\* variant: the demand test is dropped, every hour is heated
DecideAlwaysHeat(t, s, p, c, desired) ==
    IF s > 0
    THEN LET use == Min(power, s)
         IN  [use |-> use, s |-> s - use, heat |-> use,
              grid_heat |-> 0, cost |-> c]
    ELSE [use |-> 0, s |-> s, heat |-> power,
          grid_heat |-> power, cost |-> c + power * p * dt]

\* variant: energy taken from the store is billed as well
DecideChargeStorage(t, s, p, c, desired) ==
    IF t < desired
    THEN IF s > 0
         THEN LET use == Min(power, s)
              IN  [use |-> use, s |-> s - use, heat |-> use,
                   grid_heat |-> 0, cost |-> c + use * p * dt]
         ELSE [use |-> 0, s |-> s, heat |-> power,
               grid_heat |-> power, cost |-> c + power * p * dt]
    ELSE [use |-> 0, s |-> s, heat |-> 0, grid_heat |-> 0, cost |-> c]

\* variant: the demand test is t <= desired
DecideAtTarget(t, s, p, c, desired) ==
    IF t <= desired
    THEN IF s > 0
         THEN LET use == Min(power, s)
              IN  [use |-> use, s |-> s - use, heat |-> use,
                   grid_heat |-> 0, cost |-> c]
         ELSE [use |-> 0, s |-> s, heat |-> power,
               grid_heat |-> power, cost |-> c + power * p * dt]
    ELSE [use |-> 0, s |-> s, heat |-> 0, grid_heat |-> 0, cost |-> c]

\* lines 32-44: choice of the heating source.  s, use, heat and grid_heat
\* are in kW(h); c is the running cost, p the price of the hour.
Decide(t, s, p, c, desired) ==
    IF t < desired
    THEN IF s > 0
         THEN LET use == Min(power, s)
              IN  [use |-> use, s |-> s - use, heat |-> use,
                   grid_heat |-> 0, cost |-> c]
         ELSE [use |-> 0, s |-> s, heat |-> power,
               grid_heat |-> power, cost |-> c + power * p * dt]
    ELSE [use |-> 0, s |-> s, heat |-> 0, grid_heat |-> 0, cost |-> c]

\* variant: the 0.5 factor is left out
NewTempUndamped(t, heat, loss) ==
    Fl(t + Fl(heat * TempScale - loss))

\* variant: the sign of the balance is flipped
NewTempFlipped(t, heat, loss) ==
    Fl(t + Fl(RoundHalfEven(Fl(loss - heat * TempScale), 2)))

\* new_t = t + (heat - loss) * 0.5
NewTemp(t, heat, loss) ==
    Fl(t + Fl(RoundHalfEven(Fl(heat * TempScale - loss), 2)))

\* variant: storage.append takes the level read at line 30
HourBodyStale(st, p, desired, outdoor) ==
    LET t    == st.temps[Len(st.temps)]
        s    == st.storage[Len(st.storage)]
        loss == Loss(t, outdoor)
        d    == Decide(t, s, p, st.cost, desired)
    IN  [temps   |-> Append(st.temps, NewTemp(t, d.heat, loss)),
         storage |-> Append(st.storage, s),
         grid    |-> Append(st.grid, d.grid_heat),
         pcm_use |-> Append(st.pcm_use, d.use),
         cost    |-> d.cost]

\* one iteration of the for loop on the locals st, with price p
HourBody(st, p, desired, outdoor) ==
    LET t    == st.temps[Len(st.temps)]
        s    == st.storage[Len(st.storage)]
        loss == Loss(t, outdoor)
        d    == Decide(t, s, p, st.cost, desired)
    IN  [temps   |-> Append(st.temps, NewTemp(t, d.heat, loss)),
         storage |-> Append(st.storage, d.s),
         grid    |-> Append(st.grid, d.grid_heat),
         pcm_use |-> Append(st.pcm_use, d.use),
         cost    |-> d.cost]

\* lines 26-28: the locals before the loop
InitialLocals(outdoor) ==
    [temps |-> <<outdoor>>, storage |-> <<pcm_cap>>,
     grid |-> <<>>, pcm_use |-> <<>>, cost |-> 0]

---------------------------------------------------------------------------
(* Aggregation: lines 50-60 *)

\* np.round(x, 2) of a temperature, in hundredths of a degree
RoundTemp(t) == RoundHalfEven(t, TempScale \div 100)

\* np.round(x, 3) of a price, in thousandths of EUR
RoundPrice(p) == RoundHalfEven(p, PriceScale \div 1000)

\* total_cost = round(cost, 2), in cents
TotalCost(c) == RoundHalfEven(c, PriceScale \div 100)

\* variant: the product is truncated, not rounded
Co2SavedTruncated(use) == (SumSeq(use) * co2_factor_milli) \div 10

\* co2_saved = round(sum(pcm_use) * 0.233, 2), in hundredths of kg.
\* The double nearest 0.233 lies above 0.233, so a decimal tie of the
\* product (5 * 0.233 = 1.165) is above the tie in binary and rounds up.
Co2Saved(use) == RoundHalfUp(SumSeq(use) * co2_factor_milli, 10)

\* trees_equiv = round(co2_saved / 21, 2), in hundredths
TreesEquiv(co2) == RoundHalfEven(co2, trees_divisor)

\* variant: the Temperature column holds temps[1:], the updated values
MakeResultUpdated(st, pr) ==
    LET co2 == Co2Saved(st.pcm_use)
    IN  [Hour        |-> HourColumn,
         Temperature |-> [i \in 1 .. Len(st.temps) - 1 |-> RoundTemp(st.temps[i + 1])],
         Grid        |-> st.grid,
         PCM         |-> st.pcm_use,
         Price       |-> [i \in 1 .. Len(pr) |-> RoundPrice(pr[i])],
         total_cost  |-> TotalCost(st.cost),
         co2_saved   |-> co2,
         trees_equiv |-> TreesEquiv(co2)]

\* lines 50-60: the returned tuple
MakeResult(st, pr) ==
    LET co2 == Co2Saved(st.pcm_use)
    IN  [Hour        |-> HourColumn,
         Temperature |-> [i \in 1 .. Len(st.temps) - 1 |-> RoundTemp(st.temps[i])],
         Grid        |-> st.grid,
         PCM         |-> st.pcm_use,
         Price       |-> [i \in 1 .. Len(pr) |-> RoundPrice(pr[i])],
         total_cost  |-> TotalCost(st.cost),
         co2_saved   |-> co2,
         trees_equiv |-> TreesEquiv(co2)]

\* simulate(desired, outdoor) run on its own: the loop applied to every
\* hour of LoopRange in order, on the prices of a freshly seeded generator
RECURSIVE RunHours(_, _, _, _, _)
RunHours(st, h, pr, desired, outdoor) ==
    IF h \notin LoopRange THEN st
    ELSE RunHours(HourBody(st, pr[h + 1], desired, outdoor), h + 1,
                  pr, desired, outdoor)

SimulateAlone(desired, outdoor) ==
    LET pr == AddSurcharge(Uniform(SeedState(0)))
    IN  MakeResult(RunHours(InitialLocals(outdoor), 0, pr, desired, outdoor), pr)

---------------------------------------------------------------------------
(* State machine *)

NoResult == [returned |-> FALSE]

InitOver(ids) ==
    /\ rng_pos \in {0, 5}
    /\ pc = [c \in ids |-> "idle"]
    /\ desired_temp = [c \in ids |-> 0]
    /\ outdoor_temp = [c \in ids |-> 0]
    /\ prices = [c \in ids |-> <<>>]
    /\ temps = [c \in ids |-> <<>>]
    /\ storage = [c \in ids |-> <<>>]
    /\ grid = [c \in ids |-> <<>>]
    /\ pcm_use = [c \in ids |-> <<>>]
    /\ cost = [c \in ids |-> 0]
    /\ hour = [c \in ids |-> 0]
    /\ result = [c \in ids |-> NoResult]

\* arguments tried by direct callers, <<desired_temp, outdoor_temp>> in
\* 1/TempScale degrees: the defaults; a target reached and lost again; a
\* target reached before the store is empty; no demand (equal, and target
\* below outdoor); an outdoor temperature with a third decimal; frost;
\* an outdoor temperature one spacing below the target
Arguments ==
    { <<22 * TempScale, 5 * TempScale>>,
      <<8 * TempScale, 5 * TempScale>>,
      <<6 * TempScale, 5 * TempScale>>,
      <<5 * TempScale, 5 * TempScale>>,
      <<5 * TempScale, 5 * TempScale + 126 * (TempScale \div 1000)>>,
      <<7 * TempScale + TempScale \div 2,
        5 * TempScale + 126 * (TempScale \div 1000)>>,
      <<5 * TempScale, -3 * TempScale>>,
      <<7 * TempScale + TempScale \div 2,
        7 * TempScale + TempScale \div 2 - 4>> }

Locals(c) ==
    [temps |-> temps[c], storage |-> storage[c], grid |-> grid[c],
     pcm_use |-> pcm_use[c], cost |-> cost[c]]

\* a call binds its arguments and enters the body
Enter(c, d, o) ==
    /\ pc[c] = "idle"
    /\ pc' = [pc EXCEPT ![c] = "seed"]
    /\ desired_temp' = [desired_temp EXCEPT ![c] = d]
    /\ outdoor_temp' = [outdoor_temp EXCEPT ![c] = o]
    /\ UNCHANGED <<rng_pos, prices, temps, storage, grid, pcm_use, cost,
                   hour, result>>

\* simulate(d, o) called directly, the calls following one another
Call(c) ==
    /\ \A k \in DOMAIN pc : k < c => pc[k] = "returned"
    /\ \A k \in DOMAIN pc : k > c => pc[k] = "idle"
    /\ \E a \in Arguments : Enter(c, a[1], a[2])

\* stats(), data_json(), data_csv(): simulate() with the defaults, on the
\* thread of the request
Handler(c) == Enter(c, default_desired_temp, default_outdoor_temp)

\* line 21
Seed(c) ==
    /\ pc[c] = "seed"
    /\ rng_pos' = SeedState(rng_pos)
    /\ pc' = [pc EXCEPT ![c] = "uniform"]
    /\ UNCHANGED <<desired_temp, outdoor_temp, prices, temps, storage, grid,
                   pcm_use, cost, hour, result>>

\* line 22
Draw(c) ==
    /\ pc[c] = "uniform"
    /\ prices' = [prices EXCEPT ![c] = Uniform(rng_pos)]
    /\ rng_pos' = AfterUniform(rng_pos)
    /\ pc' = [pc EXCEPT ![c] = "surcharge"]
    /\ UNCHANGED <<desired_temp, outdoor_temp, temps, storage, grid,
                   pcm_use, cost, hour, result>>

\* lines 23-28
Surcharge(c) ==
    /\ pc[c] = "surcharge"
    /\ prices' = [prices EXCEPT ![c] = AddSurcharge(prices[c])]
    /\ LET st == InitialLocals(outdoor_temp[c])
       IN  /\ temps' = [temps EXCEPT ![c] = st.temps]
           /\ storage' = [storage EXCEPT ![c] = st.storage]
           /\ grid' = [grid EXCEPT ![c] = st.grid]
           /\ pcm_use' = [pcm_use EXCEPT ![c] = st.pcm_use]
           /\ cost' = [cost EXCEPT ![c] = st.cost]
    /\ hour' = [hour EXCEPT ![c] = 0]
    /\ pc' = [pc EXCEPT ![c] = "loop"]
    /\ UNCHANGED <<rng_pos, desired_temp, outdoor_temp, result>>

\* lines 29-49: one iteration
Step(c) ==
    /\ pc[c] = "loop"
    /\ hour[c] \in LoopRange
    /\ LET st == HourBody(Locals(c), prices[c][hour[c] + 1],
                          desired_temp[c], outdoor_temp[c])
       IN  /\ temps' = [temps EXCEPT ![c] = st.temps]
           /\ storage' = [storage EXCEPT ![c] = st.storage]
           /\ grid' = [grid EXCEPT ![c] = st.grid]
           /\ pcm_use' = [pcm_use EXCEPT ![c] = st.pcm_use]
           /\ cost' = [cost EXCEPT ![c] = st.cost]
    /\ hour' = [hour EXCEPT ![c] = hour[c] + 1]
    /\ UNCHANGED <<rng_pos, pc, desired_temp, outdoor_temp, prices, result>>

\* line 29: range(24) exhausted
LoopExit(c) ==
    /\ pc[c] = "loop"
    /\ hour[c] \notin LoopRange
    /\ pc' = [pc EXCEPT ![c] = "aggregate"]
    /\ UNCHANGED <<rng_pos, desired_temp, outdoor_temp, prices, temps,
                   storage, grid, pcm_use, cost, hour, result>>

\* lines 50-60
Return(c) ==
    /\ pc[c] = "aggregate"
    /\ result' = [result EXCEPT ![c] =
                    [returned |-> TRUE, value |-> MakeResult(Locals(c), prices[c])]]
    /\ pc' = [pc EXCEPT ![c] = "returned"]
    /\ UNCHANGED <<rng_pos, desired_temp, outdoor_temp, prices, temps,
                   storage, grid, pcm_use, cost, hour>>

Run(c) == Seed(c) \/ Draw(c) \/ Surcharge(c) \/ Step(c) \/ LoopExit(c) \/ Return(c)

\* calls made one after the other
Init == InitOver(1 .. NumCalls)
Next == \E c \in DOMAIN pc : Call(c) \/ Run(c)
Spec == Init /\ [][Next]_vars
\* a running call keeps running: it has no blocking point
FairSpec == Spec /\ \A c \in 1 .. NumCalls : WF_vars(Run(c))

\* Handlers on concurrent request threads (Flask's threaded server).
\* Lines 23-60 touch only the locals of the call, so their steps commute
\* with every step of the other threads: a thread inside them is run on to
\* its return before another thread moves, and the threads interleave at
\* the two statements that touch the shared generator (lines 21 and 22).
LocalSection == {"surcharge", "loop", "aggregate"}

Scheduled(c) ==
    \A k \in DOMAIN pc : pc[k] \in LocalSection => k = c

InitConc == InitOver(1 .. NumThreads)
NextConc == \E c \in DOMAIN pc : Scheduled(c) /\ (Handler(c) \/ Run(c))
SpecConc == InitConc /\ [][NextConc]_vars

---------------------------------------------------------------------------
(* Properties *)

Calls == DOMAIN pc

\* the invocation has set up its locals (line 26 onwards)
InLoop(c) == pc[c] \in {"loop", "aggregate", "returned"}

Returned(c) == pc[c] = "returned"

\* hours already simulated by invocation c, as indices into grid/pcm_use;
\* temps[c][i] and storage[c][i] are the values at the start of that hour
HoursDone(c) == 1 .. Len(grid[c])

\* C1: the storage level at the start of the run and after every hourly
\* step is in [0, 5].
C1_StorageInRange ==
    \A c \in Calls : InLoop(c) =>
        /\ Len(storage[c]) = hour[c] + 1
        /\ \A i \in 1 .. Len(storage[c]) :
              storage[c][i] >= 0 /\ storage[c][i] <= 5

\* a run that has emptied the store from the full level
C1_Witness ==
    \E c \in Calls : /\ InLoop(c)
                     /\ Len(storage[c]) > 3
                     /\ storage[c][1] = 5
                     /\ storage[c][Len(storage[c])] = 0

\* C2 (as claimed): under every interleaving, an invocation returns what
\* it returns when run alone.
C2_ResultAsAlone ==
    \A c \in Calls : Returned(c) =>
        result[c].value = SimulateAlone(desired_temp[c], outdoor_temp[c])

\* C3: once the storage level has been 0, an hour starting below the
\* target records grid 2 and PCM 0, an hour at or above it records 0 and 0.
C3_AfterDepletion ==
    \A c \in Calls : InLoop(c) =>
        \A i \in HoursDone(c) :
            (\E j \in 1 .. i : storage[c][j] = 0) =>
                /\ temps[c][i] < desired_temp[c] =>
                      grid[c][i] = 2 /\ pcm_use[c][i] = 0
                /\ temps[c][i] >= desired_temp[c] =>
                      grid[c][i] = 0 /\ pcm_use[c][i] = 0

\* after depletion: a grid hour, later an hour at target, later a grid hour
C3_Witness ==
    \E c \in Calls : InLoop(c) /\
        \E i, j, k \in HoursDone(c) :
            /\ i < j /\ j < k
            /\ storage[c][i] = 0
            /\ temps[c][i] < desired_temp[c] /\ grid[c][i] = 2
            /\ temps[c][j] >= desired_temp[c] /\ grid[c][j] = 0
            /\ temps[c][k] < desired_temp[c] /\ grid[c][k] = 2

\* C4: every hourly record has grid_heating_kw 0 or 2.
C4_GridZeroOrTwo ==
    \A c \in Calls :
        /\ InLoop(c) => \A i \in HoursDone(c) : grid[c][i] \in {0, 2}
        /\ Returned(c) =>
              \A i \in 1 .. Len(result[c].value.Grid) :
                  result[c].value.Grid[i] \in {0, 2}

\* a returned run whose records hold both values, one of them in an hour
\* that started with a partly filled store
C4_Witness ==
    \E c \in Calls : Returned(c) /\
        \E i, j, k \in 1 .. 24 :
            /\ result[c].value.Grid[i] = 0
            /\ result[c].value.Grid[j] = 2
            /\ storage[c][k] = 1 /\ pcm_use[c][k] = 1

\* C5: every hourly record has pcm_use_kw in [0, 2], at most the storage
\* level at the start of the hour: min(2, storage) when discharging, else 0.
C5_PcmUseBounded ==
    \A c \in Calls : InLoop(c) =>
        \A i \in HoursDone(c) :
            /\ pcm_use[c][i] >= 0 /\ pcm_use[c][i] <= 2
            /\ pcm_use[c][i] <= storage[c][i]
            /\ pcm_use[c][i] =
                  IF temps[c][i] < desired_temp[c] /\ storage[c][i] > 0
                  THEN (IF storage[c][i] < 2 THEN storage[c][i] ELSE 2)
                  ELSE 0
            /\ Returned(c) => result[c].value.PCM[i] = pcm_use[c][i]

\* a discharge limited by the level (1 left), after full-rate ones
C5_Witness ==
    \E c \in Calls : InLoop(c) /\
        \E i, j \in HoursDone(c) :
            /\ storage[c][i] = 1 /\ pcm_use[c][i] = 1
            /\ storage[c][j] = 5 /\ pcm_use[c][j] = 2

\* C6: invocations with identical arguments, run one after the other,
\* return identical results (price series, records, totals).
C6_SameInputsSameResult ==
    \A c1, c2 \in Calls :
        (/\ Returned(c1) /\ Returned(c2)
         /\ desired_temp[c1] = desired_temp[c2]
         /\ outdoor_temp[c1] = outdoor_temp[c2])
        => /\ prices[c1] = prices[c2]
           /\ result[c1].value = result[c2].value

\* two returned calls with the same arguments and a non-zero cost
C6_Witness ==
    \E c1, c2 \in Calls :
        /\ c1 # c2 /\ Returned(c1) /\ Returned(c2)
        /\ desired_temp[c1] = desired_temp[c2]
        /\ outdoor_temp[c1] = outdoor_temp[c2]
        /\ result[c1].value.total_cost > 0

\* C7: with desired_temp <= outdoor_temp the temperature stays at
\* outdoor_temp, every hour records grid 0 and PCM 0, storage stays 5 and
\* the three totals are 0.
C7_NoDemand ==
    \A c \in Calls : (InLoop(c) /\ desired_temp[c] <= outdoor_temp[c]) =>
        /\ \A i \in 1 .. Len(temps[c]) : temps[c][i] = outdoor_temp[c]
        /\ \A i \in 1 .. Len(storage[c]) : storage[c][i] = 5
        /\ \A i \in HoursDone(c) : grid[c][i] = 0 /\ pcm_use[c][i] = 0
        /\ cost[c] = 0
        /\ Returned(c) =>
              /\ \A i \in 1 .. 24 : /\ result[c].value.Grid[i] = 0
                                    /\ result[c].value.PCM[i] = 0
              /\ result[c].value.total_cost = 0
              /\ result[c].value.co2_saved = 0
              /\ result[c].value.trees_equiv = 0

\* returned runs with desired = outdoor and with desired < outdoor
C7_Witness ==
    /\ \E c \in Calls : Returned(c) /\ desired_temp[c] = outdoor_temp[c]
    /\ \E c \in Calls : Returned(c) /\ desired_temp[c] < outdoor_temp[c]

\* C8: simulate runs exactly 24 hourly steps without early exit and
\* terminates; the records are 24, with hours 0..23 in order.
C8_TwentyFourSteps ==
    /\ [](\A c \in Calls :
            /\ pc[c] \in {"aggregate", "returned"} =>
                  /\ hour[c] = 24
                  /\ Len(grid[c]) = 24 /\ Len(pcm_use[c]) = 24
                  /\ Len(temps[c]) = 25 /\ Len(storage[c]) = 25
            /\ Returned(c) =>
                  /\ Len(result[c].value.Hour) = 24
                  /\ \A i \in 1 .. 24 : result[c].value.Hour[i] = i - 1
                  /\ Len(result[c].value.Temperature) = 24
                  /\ Len(result[c].value.Grid) = 24
                  /\ Len(result[c].value.PCM) = 24
                  /\ Len(result[c].value.Price) = 24)
    /\ \A c \in 1 .. NumCalls : (pc[c] = "seed") ~> (pc[c] = "returned")

\* a call that has returned after its loop
C8_Witness ==
    \E c \in Calls : Returned(c) /\ hour[c] = 24 /\ result[c].returned

\* C9 (as claimed): with outdoor_temp < desired_temp the hour-0 record
\* shows temperature = outdoor_temp, grid 0, PCM 2, storage 5 then 3.
C9_HourZeroAsClaimed ==
    \A c \in Calls : (Returned(c) /\ outdoor_temp[c] < desired_temp[c]) =>
        /\ result[c].value.Temperature[1] * (TempScale \div 100) = outdoor_temp[c]
        /\ result[c].value.Grid[1] = 0
        /\ result[c].value.PCM[1] = 2
        /\ storage[c][1] = 5 /\ storage[c][2] = 3

\* C9 (amended): with outdoor_temp < desired_temp the hour-0 record shows
\* temperature = outdoor_temp rounded to 2 decimals, grid 0, PCM 2, and
\* storage starts at 5 and is 3 after hour 0.
C9_HourZero ==
    \A c \in Calls : (Returned(c) /\ outdoor_temp[c] < desired_temp[c]) =>
        /\ result[c].value.Temperature[1] = RoundHalfEven(outdoor_temp[c], TempScale \div 100)
        /\ temps[c][1] = outdoor_temp[c]
        /\ result[c].value.Grid[1] = 0
        /\ result[c].value.PCM[1] = 2
        /\ storage[c][1] = 5 /\ storage[c][2] = 3

\* returned runs with demand: the defaults, and an outdoor temperature
\* with a third decimal
C9_Witness ==
    /\ \E c \in Calls : /\ Returned(c)
                        /\ desired_temp[c] = 22 * TempScale
                        /\ outdoor_temp[c] = 5 * TempScale
                        /\ result[c].value.Temperature[1] = 500
    /\ \E c \in Calls : /\ Returned(c)
                        /\ outdoor_temp[c] < desired_temp[c]
                        /\ outdoor_temp[c] % (TempScale \div 100) # 0

\* C10: the price series has 24 entries in [0.15, 0.40]; exactly the hours
\* 7, 8, 17, 18, 19 carry the 0.15 surcharge on a base in [0.15, 0.25), so
\* every peak price is above every off-peak price.
C10_PriceSeries ==
    /\ [](\A c \in Calls : InLoop(c) =>
            /\ Len(prices[c]) = 24
            /\ \A i \in 1 .. 24 :
                  /\ prices[c][i] >= 15 * (PriceScale \div 100)
                  /\ prices[c][i] <= 40 * (PriceScale \div 100)
                  /\ IF (i - 1) \in {7, 8, 17, 18, 19}
                     THEN /\ prices[c][i] >= 30 * (PriceScale \div 100)
                          /\ prices[c][i] < 40 * (PriceScale \div 100)
                     ELSE /\ prices[c][i] >= 15 * (PriceScale \div 100)
                          /\ prices[c][i] < 25 * (PriceScale \div 100)
            /\ \A i, j \in 1 .. 24 :
                  ((i - 1) \in {7, 8, 17, 18, 19} /\ (j - 1) \notin {7, 8, 17, 18, 19})
                  => prices[c][i] > prices[c][j])
    /\ [][\A c \in Calls : (pc[c] = "surcharge" /\ pc'[c] = "loop") =>
            /\ Len(prices[c]) = 24 /\ Len(prices'[c]) = 24
            /\ \A i \in 1 .. 24 :
                  /\ prices[c][i] >= 15 * (PriceScale \div 100)
                  /\ prices[c][i] < 25 * (PriceScale \div 100)
                  /\ prices'[c][i] - prices[c][i] =
                        IF (i - 1) \in {7, 8, 17, 18, 19}
                        THEN 15 * (PriceScale \div 100) ELSE 0]_vars

\* price series built from different generator states are in use
C10_Witness ==
    \E c1, c2 \in Calls :
        /\ InLoop(c1) /\ InLoop(c2)
        /\ prices[c1] # prices[c2]
        /\ prices[c1][8] > prices[c1][7]

\* C11: co2_saved_kg is the sum of pcm_use_kw times 0.233 rounded to 2
\* decimals, trees_equivalent is co2_saved_kg / 21 rounded to 2 decimals;
\* both depend only on the total energy discharged.
C11_Co2AndTrees ==
    /\ \A c \in Calls : Returned(c) =>
          LET e   == SumSeq(result[c].value.PCM)
              co2 == result[c].value.co2_saved
              tr  == result[c].value.trees_equiv
          IN  /\ Abs(10 * co2 - 233 * e) <= 5
              /\ 2 * Abs(21 * tr - co2) <= 21
    /\ \A c1, c2 \in Calls :
          (/\ Returned(c1) /\ Returned(c2)
           /\ SumSeq(result[c1].value.PCM) = SumSeq(result[c2].value.PCM))
          => /\ result[c1].value.co2_saved = result[c2].value.co2_saved
             /\ result[c1].value.trees_equiv = result[c2].value.trees_equiv

\* two returned runs with the same discharged energy (5 kWh, the tie
\* 1.165 of the product) and different costs
C11_Witness ==
    \E c1, c2 \in Calls :
        /\ Returned(c1) /\ Returned(c2)
        /\ SumSeq(result[c1].value.PCM) = 5
        /\ SumSeq(result[c2].value.PCM) = 5
        /\ result[c1].value.total_cost # result[c2].value.total_cost
        /\ result[c1].value.co2_saved = 117
        /\ result[c1].value.trees_equiv = 6

\* C12: an hour that starts with t >= desired_temp leaves storage and cost
\* unchanged and records heat = pcm_use_kw = grid_heating_kw = 0, whatever
\* the storage level and the price.
C12_NoDemandHourFrame ==
    [][\A c \in Calls :
         (/\ pc[c] = "loop" /\ hour'[c] = hour[c] + 1
          /\ temps[c][Len(temps[c])] >= desired_temp[c])
         => LET t == temps[c][Len(temps[c])]
            IN  /\ storage'[c] = Append(storage[c], storage[c][Len(storage[c])])
                /\ cost'[c] = cost[c]
                /\ grid'[c] = Append(grid[c], 0)
                /\ pcm_use'[c] = Append(pcm_use[c], 0)
                /\ temps'[c] = Append(temps[c], NewTemp(t, 0, Loss(t, outdoor_temp[c])))
                /\ temps'[c][Len(temps'[c])] <= t]_vars

\* hours at or above target done with a partly filled store, with an
\* empty store, and at a peak and an off-peak price
C12_Witness ==
    /\ \E c \in Calls : \E i \in HoursDone(c) :
          temps[c][i] >= desired_temp[c] /\ storage[c][i] > 0 /\ storage[c][i] < 5
    /\ \E c \in Calls : \E i, j \in HoursDone(c) :
          /\ temps[c][i] >= desired_temp[c] /\ storage[c][i] = 0
          /\ temps[c][j] >= desired_temp[c] /\ storage[c][j] = 0
          /\ (i - 1) \in {7, 8, 17, 18, 19} /\ (j - 1) \notin {7, 8, 17, 18, 19}

\* cost of the grid hours among the first n hours: 2 * price of the hour
RECURSIVE GridCost(_, _, _)
GridCost(g, pr, n) ==
    IF n = 0 THEN 0
    ELSE GridCost(g, pr, n - 1) + (IF g[n] = 2 THEN 2 * pr[n] ELSE 0)

\* C13: the cost grows by 2 * price[h] in the hours that draw from the grid
\* (t < desired_temp, storage 0) and is unchanged in the others; it never
\* decreases, total_cost >= 0, and the unrounded total is the sum of
\* 2 * price[h] over the hours with grid_heating_kw = 2.
C13_CostOnlyFromGrid ==
    /\ [](\A c \in Calls : InLoop(c) =>
            /\ cost[c] >= 0
            /\ cost[c] = GridCost(grid[c], prices[c], Len(grid[c]))
            /\ Returned(c) => result[c].value.total_cost >= 0)
    /\ [][\A c \in Calls :
            (pc[c] = "loop" /\ hour'[c] = hour[c] + 1) =>
                LET t == temps[c][Len(temps[c])]
                    s == storage[c][Len(storage[c])]
                    p == prices[c][hour[c] + 1]
                IN  /\ cost'[c] >= cost[c]
                    /\ cost'[c] - cost[c] =
                          IF t < desired_temp[c] /\ s = 0 THEN 2 * p ELSE 0
                    /\ (cost'[c] # cost[c]) <=>
                          grid'[c][Len(grid'[c])] = 2]_vars

\* a returned run with storage hours, grid hours and idle hours and a
\* positive total
C13_Witness ==
    \E c \in Calls : Returned(c) /\
        \E i, j, k \in HoursDone(c) :
            /\ pcm_use[c][i] > 0 /\ grid[c][j] = 2
            /\ grid[c][k] = 0 /\ pcm_use[c][k] = 0
            /\ cost[c] > 0 /\ result[c].value.total_cost > 0

\* C14: storage is exhausted before the grid is used: an hour with grid 2
\* starts with storage 0 and has PCM 0, as has every later hour; no hour
\* has both non-zero; every PCM hour precedes every grid hour.
C14_StorageBeforeGrid ==
    \A c \in Calls : InLoop(c) =>
        \A i \in HoursDone(c) :
            /\ grid[c][i] = 2 =>
                  /\ storage[c][i] = 0
                  /\ \A j \in HoursDone(c) : j >= i => pcm_use[c][j] = 0
            /\ ~(grid[c][i] # 0 /\ pcm_use[c][i] # 0)
            /\ \A j \in HoursDone(c) :
                  (pcm_use[c][i] > 0 /\ grid[c][j] > 0) => i < j

\* a run with PCM hours, an idle hour after them, and grid hours later
C14_Witness ==
    \E c \in Calls : InLoop(c) /\
        \E i, j, k \in HoursDone(c) :
            /\ i < j /\ j < k
            /\ pcm_use[c][i] = 1
            /\ grid[c][j] = 0 /\ pcm_use[c][j] = 0
            /\ grid[c][k] = 2

\* PCM use of the first n hours
RECURSIVE UsedUpTo(_, _)
UsedUpTo(u, n) == IF n = 0 THEN 0 ELSE UsedUpTo(u, n - 1) + u[n]

\* C15: after every hour the storage level plus the PCM use so far is 5,
\* the level never rises, the total PCM use is at most 5 kWh and at most
\* 3 hours have PCM use > 0.
C15_StorageConserved ==
    \A c \in Calls : InLoop(c) =>
        /\ Len(storage[c]) = Len(pcm_use[c]) + 1
        /\ \A n \in 0 .. Len(pcm_use[c]) :
              storage[c][n + 1] + UsedUpTo(pcm_use[c], n) = 5
        /\ \A i \in HoursDone(c) : storage[c][i + 1] <= storage[c][i]
        /\ UsedUpTo(pcm_use[c], Len(pcm_use[c])) <= 5
        /\ Cardinality({i \in HoursDone(c) : pcm_use[c][i] > 0}) <= 3

\* a run that emptied the store in three hours, and a run that ended with
\* energy left after discharging
C15_Witness ==
    /\ \E c \in Calls :
          /\ InLoop(c)
          /\ Cardinality({i \in HoursDone(c) : pcm_use[c][i] > 0}) = 3
          /\ storage[c][Len(storage[c])] = 0
    /\ \E c \in Calls :
          /\ Returned(c)
          /\ storage[c][25] > 0 /\ storage[c][25] < 5

\* C16: the temperature at the start of every hour and after the last one
\* is never below outdoor_temp, so the loss is never negative.
C16_NeverBelowOutdoor ==
    \A c \in Calls : InLoop(c) =>
        \A i \in 1 .. Len(temps[c]) :
            /\ temps[c][i] >= outdoor_temp[c]
            /\ Loss(temps[c][i], outdoor_temp[c]) >= 0
            /\ loss_coeff_tenths * room_vol * (temps[c][i] - outdoor_temp[c]) >= 0

\* a returned run below zero outside whose temperature rose and then fell
\* back towards outdoor_temp in an unheated hour
C16_Witness ==
    \E c \in Calls : Returned(c) /\ outdoor_temp[c] < 0 /\
        \E i \in HoursDone(c) :
            /\ temps[c][i + 1] < temps[c][i]
            /\ temps[c][i + 1] > outdoor_temp[c]
            /\ Loss(temps[c][i], outdoor_temp[c]) > 0

\* C17 (as claimed): with outdoor_temp <= desired_temp the temperature at
\* the start of every hour and after the last one is strictly below
\* desired_temp + 1.
C17_OvershootStrict ==
    \A c \in Calls : (InLoop(c) /\ outdoor_temp[c] <= desired_temp[c]) =>
        \A i \in 1 .. Len(temps[c]) :
            temps[c][i] < desired_temp[c] + TempScale

\* C17 (amended): with outdoor_temp <= desired_temp the temperature at the
\* start of every hour and after the last one is at most desired_temp + 1
\* as evaluated in floating point; a heated hour raises it by at most 1
\* and an unheated hour never raises it.
C17_OvershootBounded ==
    /\ [](\A c \in Calls : (InLoop(c) /\ outdoor_temp[c] <= desired_temp[c]) =>
            \A i \in 1 .. Len(temps[c]) :
                temps[c][i] <= Fl(desired_temp[c] + TempScale))
    /\ [][\A c \in Calls :
            (pc[c] = "loop" /\ hour'[c] = hour[c] + 1) =>
                LET t  == temps[c][Len(temps[c])]
                    nt == temps'[c][Len(temps'[c])]
                IN  /\ nt <= Fl(t + TempScale)
                    /\ (grid'[c][Len(grid'[c])] = 0 /\
                        pcm_use'[c][Len(pcm_use'[c])] = 0) => nt <= t]_vars

\* a run that landed exactly on desired_temp + 1, and a run that overshot
\* the target by less, after a grid hour
C17_Witness ==
    /\ \E c \in Calls : InLoop(c) /\ outdoor_temp[c] < desired_temp[c] /\
          \E i \in 1 .. Len(temps[c]) :
              temps[c][i] = desired_temp[c] + TempScale
    /\ \E c \in Calls : InLoop(c) /\ outdoor_temp[c] < desired_temp[c] /\
          \E i \in HoursDone(c) :
              /\ grid[c][i] = 2
              /\ temps[c][i + 1] > desired_temp[c]
              /\ temps[c][i + 1] < desired_temp[c] + TempScale

\* C18: with the defaults (22, 5) some hour h in 3..23, after the storage
\* is depleted, starts at 22 degrees or more and records grid 0 and PCM 0.
C18_DefaultsReachTarget ==
    \A c \in Calls :
        (/\ Returned(c)
         /\ desired_temp[c] = 22 * TempScale
         /\ outdoor_temp[c] = 5 * TempScale)
        => \E i \in 4 .. 24 :
              /\ storage[c][i] = 0
              /\ temps[c][i] >= 22 * TempScale
              /\ result[c].value.Temperature[i] >= 2200
              /\ result[c].value.Grid[i] = 0
              /\ result[c].value.PCM[i] = 0

\* the default run returned: the grid heated at hour 18 and hour 19 is the
\* first to start at target
C18_Witness ==
    \E c \in Calls :
        /\ Returned(c)
        /\ desired_temp[c] = 22 * TempScale
        /\ outdoor_temp[c] = 5 * TempScale
        /\ result[c].value.Grid[19] = 2
        /\ result[c].value.Grid[20] = 0
        /\ \A i \in 1 .. 19 : temps[c][i] < 22 * TempScale

====
